---- MODULE Spec2Model ----
(***************************************************************************)
(* Intcode machine of day21-1 (src/day21-1/src/main.rs): the addressing    *)
(* mode resolver, the instruction decoder, the execution engine, the two   *)
(* I/O buffers and the springscript driver.                                *)
(*                                                                         *)
(* Values are i128 in the source and indices are usize, 64 bits wide on    *)
(* the targets the program is built for.  The model checker's integers are *)
(* 32 bits wide, so a value or an index is the pair <<hi, lo>> of integers *)
(* that stands for the number hi * 2^64 + lo, with -MaxHi <= hi <= MaxHi   *)
(* and -MaxVal <= lo <= MaxVal.  Every number has at most one such pair,   *)
(* the pairs are far from the i128 limits, and sums, comparisons and the   *)
(* casts as usize and as u8 are exact on them.  A usize is a pair with     *)
(* hi = 0 and lo >= 0 (a number below 2^31) or with hi = 1 and lo < 0 (a   *)
(* number just below 2^64).  A step whose result has no such pair is       *)
(* outside the model (ErrBeyond) and is not explored.  Instruction words   *)
(* are decoded as plain integers (hi = 0, the pair unwrapped).             *)
(*                                                                         *)
(* Memory is a vector of MemCap cells, zero-filled at construction.  It is *)
(* represented by the finite function of its non-zero cells; every cell    *)
(* outside that function's domain and below MemCap holds 0.                *)
(***************************************************************************)
EXTENDS Integers, Sequences, FiniteSets, TLC

\* Largest multiple of 2^64 in a value explored.
MaxHi == 1

\* Longest input buffer the host builds, longest output buffer explored,
\* and the number of run invocations of one session of the free host.
MaxIn == 2
MaxOut == 3
MaxCalls == 3

\* vec![0; 1 << 16]
MemCap == 65536

MaxVal == 8 * MemCap

NoErr == "none"
ErrAssert == "assertion failed"
ErrIndex == "index out of bounds"
ErrOpcode == "unexpected opcode"
ErrMode == "unexpected param mode code"
ErrImmWrite == "attempted to write in immediate mode"
ErrHalt == "unexpected halt"
ErrWait == "unexpected wait for input"
ErrUtf8 == "called Result::unwrap() on an Err value"
ErrBeyond == "value outside the model"

--------------------------------------------------------------------------
\* Rust integer primitives.

Abs(x) == IF x < 0 THEN -x ELSE x

\* i128 /: quotient truncated toward zero (d > 0 at every use), on plain
\* integers.
RustDiv(a, d) == IF a >= 0 THEN a \div d ELSE -((-a) \div d)

\* i128 %: remainder with the sign of the dividend, on plain integers.
RustRem(a, d) == a - d * RustDiv(a, d)

\* The pair of the number hi * 2^64 + lo, and the pair of a plain integer.
Wide(hi, lo) == <<hi, lo>>
W(n) == <<0, n>>
Hi(v) == v[1]
Lo(v) == v[2]
Zero == W(0)

\* A sequence of plain integers as a sequence of values.
Narrow(ns) == [i \in DOMAIN ns |-> W(ns[i])]

\* a + b, a < b, a <= b, a >= 0 on i128 values.
WAdd(a, b) == <<Hi(a) + Hi(b), Lo(a) + Lo(b)>>
WLt(a, b) == Hi(a) < Hi(b) \/ (Hi(a) = Hi(b) /\ Lo(a) < Lo(b))
WLe(a, b) == a = b \/ WLt(a, b)
WNonNeg(a) == WLe(Zero, a)

\* a * b on i128 values has a pair when at most one factor reaches 2^64 and
\* both components stay inside the model's integers.
Fits(x, y, max) == x = 0 \/ Abs(y) <= max \div Abs(x)
WMulFits(a, b) ==
    /\ Hi(a) = 0 \/ Hi(b) = 0
    /\ Fits(Lo(a), Lo(b), MaxVal)
    /\ Fits(Hi(a), Lo(b), MaxVal) /\ Fits(Lo(a), Hi(b), MaxVal)
WMul(a, b) == <<Hi(a) * Lo(b) + Lo(a) * Hi(b), Lo(a) * Lo(b)>>

\* x as usize for an i128 x: the number x mod 2^64 (twos-complement
\* truncation to 64 bits).  |lo| < 2^64, so the result is lo itself when
\* lo >= 0 and 2^64 + lo when lo < 0.
AsUsize(x) == IF Lo(x) >= 0 THEN <<0, Lo(x)>> ELSE <<1, Lo(x)>>

\* u + k for a usize u and a small k.
UAdd(u, k) == <<Hi(u), Lo(u) + k>>

\* x as u8 for an i128 x: x mod 256, and 256 divides 2^64.
AsU8(x) == Lo(x) % 256

--------------------------------------------------------------------------
\* Memory: Vec<i128> of MemCap cells.

MemGet(m, i) == IF i \in DOMAIN m THEN m[i] ELSE Zero

MemSet(m, i, v) ==
    IF v = Zero
    THEN [j \in (DOMAIN m) \ {i} |-> m[j]]
    ELSE [j \in (DOMAIN m) \cup {i} |-> IF j = i THEN v ELSE m[j]]

\* memory[i] for a usize i: a panic when i is not below the length.
Index(m, i) ==
    IF Hi(i) = 0 /\ Lo(i) < MemCap
    THEN [err |-> NoErr, val |-> MemGet(m, Lo(i))]
    ELSE [err |-> ErrIndex, val |-> Zero]

\* memory[i] = v for a usize i.
IndexSet(m, i, v) ==
    IF Hi(i) = 0 /\ Lo(i) < MemCap
    THEN [err |-> NoErr, memory |-> MemSet(m, Lo(i), v)]
    ELSE [err |-> ErrIndex, memory |-> m]

\* IntcodeComputer::new: zero-filled memory with the program copied to its
\* start (programs are shorter than MemCap), State::default().
NewMemory(program) ==
    [i \in {j \in 0..(Len(program) - 1) : program[j + 1] # Zero} |-> program[i + 1]]

--------------------------------------------------------------------------
\* ParamMode

ParamMode_from_i128(code) ==
    CASE code = 0 -> [err |-> NoErr, mode |-> "Positional"]
      [] code = 1 -> [err |-> NoErr, mode |-> "Immediate"]
      [] code = 2 -> [err |-> NoErr, mode |-> "Relative"]
      [] OTHER    -> [err |-> ErrMode, mode |-> "none"]

\* ParamMode_read whose Relative arm leaves the relative base out.
ParamMode_read_NoBase(mode, param, relative_base, m) ==
    CASE mode = "Positional" ->
            IF ~WNonNeg(param)
            THEN [err |-> ErrAssert, val |-> Zero]
            ELSE Index(m, AsUsize(param))
      [] mode = "Immediate" -> [err |-> NoErr, val |-> param]
      [] mode = "Relative" ->
            IF ~WNonNeg(param)
            THEN [err |-> ErrAssert, val |-> Zero]
            ELSE Index(m, AsUsize(param))

ParamMode_read(mode, param, relative_base, m) ==
    CASE mode = "Positional" ->
            IF ~WNonNeg(param)
            THEN [err |-> ErrAssert, val |-> Zero]
            ELSE Index(m, AsUsize(param))
      [] mode = "Immediate" -> [err |-> NoErr, val |-> param]
      [] mode = "Relative" ->
            LET address == WAdd(param, relative_base) IN
            IF ~WNonNeg(address)
            THEN [err |-> ErrAssert, val |-> Zero]
            ELSE Index(m, AsUsize(address))

\* ParamMode_write whose Positional arm stores one cell too far.
ParamMode_write_OffByOne(mode, param, relative_base, value, m) ==
    CASE mode = "Positional" ->
            IF ~WNonNeg(param)
            THEN [err |-> ErrAssert, memory |-> m]
            ELSE IndexSet(m, AsUsize(WAdd(param, W(1))), value)
      [] mode = "Immediate" -> [err |-> ErrImmWrite, memory |-> m]
      [] mode = "Relative" ->
            LET address == WAdd(param, relative_base) IN
            IF ~WNonNeg(address)
            THEN [err |-> ErrAssert, memory |-> m]
            ELSE IndexSet(m, AsUsize(address), value)

\* ParamMode::write storing through Immediate mode at the address param, as
\* Positional mode does, without a panic.
ParamMode_write_ImmAsPositional(mode, param, relative_base, value, m) ==
    CASE mode \in {"Positional", "Immediate"} ->
            IF ~WNonNeg(param)
            THEN [err |-> ErrAssert, memory |-> m]
            ELSE IndexSet(m, AsUsize(param), value)
      [] mode = "Relative" ->
            LET address == WAdd(param, relative_base) IN
            IF ~WNonNeg(address)
            THEN [err |-> ErrAssert, memory |-> m]
            ELSE IndexSet(m, AsUsize(address), value)

ParamMode_write(mode, param, relative_base, value, m) ==
    CASE mode = "Positional" ->
            IF ~WNonNeg(param)
            THEN [err |-> ErrAssert, memory |-> m]
            ELSE IndexSet(m, AsUsize(param), value)
      [] mode = "Immediate" -> [err |-> ErrImmWrite, memory |-> m]
      [] mode = "Relative" ->
            LET address == WAdd(param, relative_base) IN
            IF ~WNonNeg(address)
            THEN [err |-> ErrAssert, memory |-> m]
            ELSE IndexSet(m, AsUsize(address), value)

\* ParamModes::nth
ParamModes_nth(encoded, n) ==
    ParamMode_from_i128(RustRem(RustDiv(encoded, 10 ^ n), 10))

\* self.param_modes.nth(n).read(ParamArgs { param, relative_base }, memory)
ReadParam(encoded, n, param, relative_base, m) ==
    LET md == ParamModes_nth(encoded, n) IN
    IF md.err # NoErr
    THEN [err |-> md.err, val |-> Zero]
    ELSE ParamMode_read(md.mode, param, relative_base, m)

\* self.param_modes.nth(n).write(ParamArgs { param, relative_base }, value, memory)
WriteParam(encoded, n, param, relative_base, value, m) ==
    LET md == ParamModes_nth(encoded, n) IN
    IF md.err # NoErr
    THEN [err |-> md.err, memory |-> m]
    ELSE ParamMode_write(md.mode, param, relative_base, value, m)

--------------------------------------------------------------------------
\* Opcode, Instruction::decode

Opcode_from_i128(code) ==
    CASE code = 1  -> [err |-> NoErr, opcode |-> "Add"]
      [] code = 2  -> [err |-> NoErr, opcode |-> "Multiply"]
      [] code = 3  -> [err |-> NoErr, opcode |-> "Input"]
      [] code = 4  -> [err |-> NoErr, opcode |-> "Output"]
      [] code = 5  -> [err |-> NoErr, opcode |-> "JumpIfTrue"]
      [] code = 6  -> [err |-> NoErr, opcode |-> "JumpIfFalse"]
      [] code = 7  -> [err |-> NoErr, opcode |-> "LessThan"]
      [] code = 8  -> [err |-> NoErr, opcode |-> "Equals"]
      [] code = 9  -> [err |-> NoErr, opcode |-> "AdjustRelativeBase"]
      [] code = 99 -> [err |-> NoErr, opcode |-> "Halt"]
      [] OTHER     -> [err |-> ErrOpcode, opcode |-> "none"]

\* Instruction_decode taking the least non-negative remainder and the floored
\* quotient (rem_euclid / div_euclid) in place of % and /.
Instruction_decode_Euclid(encoded) ==
    LET oc == Opcode_from_i128(encoded % 100) IN
    [err |-> oc.err, opcode |-> oc.opcode, param_modes |-> encoded \div 100]

\* Instruction_decode checking every mode digit of the word at once.
Instruction_decode_Eager(encoded) ==
    LET oc == Opcode_from_i128(RustRem(encoded, 100))
        modes == RustDiv(encoded, 100)
    IN  [err |-> IF oc.err # NoErr THEN oc.err
                 ELSE IF \E n \in 0..7 : RustRem(RustDiv(modes, 10 ^ n), 10) > 2
                      THEN ErrMode ELSE NoErr,
         opcode |-> oc.opcode, param_modes |-> modes]

Instruction_decode(encoded) ==
    LET oc == Opcode_from_i128(RustRem(encoded, 100)) IN
    [err |-> oc.err, opcode |-> oc.opcode, param_modes |-> RustDiv(encoded, 100)]

--------------------------------------------------------------------------
\* Instruction::run.  s is the machine and its two buffers:
\* [memory, ip, relative_base, input_buffer, output_buffer].  The result is
\* that record after the instruction, with the Status returned (status) or
\* the panic that ended the process (err).

Result(s, status) ==
    [err |-> NoErr, status |-> status, memory |-> s.memory, ip |-> s.ip,
     relative_base |-> s.relative_base, input_buffer |-> s.input_buffer,
     output_buffer |-> s.output_buffer]

Panic(s, err) == [Result(s, "none") EXCEPT !.err = err]

\* The first panic in evaluation order.
FirstErr(errs) ==
    IF \A i \in 1..Len(errs) : errs[i] = NoErr
    THEN NoErr
    ELSE errs[CHOOSE i \in 1..Len(errs) :
                 errs[i] # NoErr /\ \A j \in 1..(i - 1) : errs[j] = NoErr]

\* ExecAdd advancing the pointer by 3.
ExecAdd_Step3(pm, s) ==
    LET m == s.memory
        rb == s.relative_base
        lhs_param == Index(m, UAdd(s.ip, 1))
        rhs_param == Index(m, UAdd(s.ip, 2))
        dst_param == Index(m, UAdd(s.ip, 3))
        lhs == ReadParam(pm, 0, lhs_param.val, rb, m)
        rhs == ReadParam(pm, 1, rhs_param.val, rb, m)
        value == WAdd(lhs.val, rhs.val)
        wr == WriteParam(pm, 2, dst_param.val, rb, value, m)
        err == FirstErr(<<lhs_param.err, rhs_param.err, dst_param.err,
                          lhs.err, rhs.err, wr.err>>)
    IN  IF err # NoErr THEN Panic(s, err)
        ELSE [Result(s, "Running") EXCEPT !.memory = wr.memory, !.ip = UAdd(s.ip, 3)]

ExecAdd(pm, s) ==
    LET m == s.memory
        rb == s.relative_base
        lhs_param == Index(m, UAdd(s.ip, 1))
        rhs_param == Index(m, UAdd(s.ip, 2))
        dst_param == Index(m, UAdd(s.ip, 3))
        lhs == ReadParam(pm, 0, lhs_param.val, rb, m)
        rhs == ReadParam(pm, 1, rhs_param.val, rb, m)
        value == WAdd(lhs.val, rhs.val)
        wr == WriteParam(pm, 2, dst_param.val, rb, value, m)
        err == FirstErr(<<lhs_param.err, rhs_param.err, dst_param.err,
                          lhs.err, rhs.err, wr.err>>)
    IN  IF err # NoErr THEN Panic(s, err)
        ELSE [Result(s, "Running") EXCEPT !.memory = wr.memory, !.ip = UAdd(s.ip, 4)]

ExecMultiply(pm, s) ==
    LET m == s.memory
        rb == s.relative_base
        lhs_param == Index(m, UAdd(s.ip, 1))
        rhs_param == Index(m, UAdd(s.ip, 2))
        dst_param == Index(m, UAdd(s.ip, 3))
        lhs == ReadParam(pm, 0, lhs_param.val, rb, m)
        rhs == ReadParam(pm, 1, rhs_param.val, rb, m)
        fits == WMulFits(lhs.val, rhs.val)
        value == IF fits THEN WMul(lhs.val, rhs.val) ELSE Zero
        wr == WriteParam(pm, 2, dst_param.val, rb, value, m)
        err == FirstErr(<<lhs_param.err, rhs_param.err, dst_param.err,
                          lhs.err, rhs.err,
                          IF fits THEN NoErr ELSE ErrBeyond, wr.err>>)
    IN  IF err # NoErr THEN Panic(s, err)
        ELSE [Result(s, "Running") EXCEPT !.memory = wr.memory, !.ip = UAdd(s.ip, 4)]

\* ExecInput with IoBuffer::read replaced by a peek: the value stays queued.
ExecInput_NoPop(pm, s) ==
    IF s.input_buffer # << >>
    THEN LET value == Head(s.input_buffer)
             param == Index(s.memory, UAdd(s.ip, 1))
             wr == WriteParam(pm, 0, param.val, s.relative_base, value, s.memory)
             err == FirstErr(<<param.err, wr.err>>)
         IN  IF err # NoErr THEN Panic(s, err)
             ELSE [Result(s, "Running") EXCEPT
                      !.memory = wr.memory, !.ip = UAdd(s.ip, 2)]
    ELSE Result(s, "WaitForInput")

\* ExecInput taking the value written last (pop_back) in place of the first.
ExecInput_PopBack(pm, s) ==
    IF s.input_buffer # << >>
    THEN LET value == s.input_buffer[Len(s.input_buffer)]
             popped == [s EXCEPT !.input_buffer =
                           SubSeq(s.input_buffer, 1, Len(s.input_buffer) - 1)]
             param == Index(s.memory, UAdd(s.ip, 1))
             wr == WriteParam(pm, 0, param.val, s.relative_base, value, s.memory)
             err == FirstErr(<<param.err, wr.err>>)
         IN  IF err # NoErr THEN Panic(popped, err)
             ELSE [Result(popped, "Running") EXCEPT
                      !.memory = wr.memory, !.ip = UAdd(s.ip, 2)]
    ELSE Result(s, "WaitForInput")

ExecInput(pm, s) ==
    IF s.input_buffer # << >>
    THEN LET value == Head(s.input_buffer)
             popped == [s EXCEPT !.input_buffer = Tail(s.input_buffer)]
             param == Index(s.memory, UAdd(s.ip, 1))
             wr == WriteParam(pm, 0, param.val, s.relative_base, value, s.memory)
             err == FirstErr(<<param.err, wr.err>>)
         IN  IF err # NoErr THEN Panic(popped, err)
             ELSE [Result(popped, "Running") EXCEPT
                      !.memory = wr.memory, !.ip = UAdd(s.ip, 2)]
    ELSE Result(s, "WaitForInput")

\* ExecOutput returning Status::Running: the run loop does not yield.
ExecOutput_NoYield(pm, s) ==
    LET param == Index(s.memory, UAdd(s.ip, 1))
        output == ReadParam(pm, 0, param.val, s.relative_base, s.memory)
        err == FirstErr(<<param.err, output.err>>)
    IN  IF err # NoErr THEN Panic(s, err)
        ELSE [Result(s, "Running") EXCEPT
                 !.output_buffer = Append(s.output_buffer, output.val),
                 !.ip = UAdd(s.ip, 2)]

ExecOutput(pm, s) ==
    LET param == Index(s.memory, UAdd(s.ip, 1))
        output == ReadParam(pm, 0, param.val, s.relative_base, s.memory)
        err == FirstErr(<<param.err, output.err>>)
    IN  IF err # NoErr THEN Panic(s, err)
        ELSE [Result(s, "WroteOutput") EXCEPT
                 !.output_buffer = Append(s.output_buffer, output.val),
                 !.ip = UAdd(s.ip, 2)]

ExecJumpIfTrue(pm, s) ==
    LET m == s.memory
        rb == s.relative_base
        cond_param == Index(m, UAdd(s.ip, 1))
        target_param == Index(m, UAdd(s.ip, 2))
        cond == ReadParam(pm, 0, cond_param.val, rb, m)
        err == FirstErr(<<cond_param.err, target_param.err, cond.err>>)
    IN  IF err # NoErr THEN Panic(s, err)
        ELSE IF cond.val # Zero
        THEN LET target == ReadParam(pm, 1, target_param.val, rb, m) IN
             IF target.err # NoErr THEN Panic(s, target.err)
             ELSE [Result(s, "Running") EXCEPT !.ip = AsUsize(target.val)]
        ELSE [Result(s, "Running") EXCEPT !.ip = UAdd(s.ip, 3)]

ExecJumpIfFalse(pm, s) ==
    LET m == s.memory
        rb == s.relative_base
        cond_param == Index(m, UAdd(s.ip, 1))
        target_param == Index(m, UAdd(s.ip, 2))
        cond == ReadParam(pm, 0, cond_param.val, rb, m)
        err == FirstErr(<<cond_param.err, target_param.err, cond.err>>)
    IN  IF err # NoErr THEN Panic(s, err)
        ELSE IF cond.val = Zero
        THEN LET target == ReadParam(pm, 1, target_param.val, rb, m) IN
             IF target.err # NoErr THEN Panic(s, target.err)
             ELSE [Result(s, "Running") EXCEPT !.ip = AsUsize(target.val)]
        ELSE [Result(s, "Running") EXCEPT !.ip = UAdd(s.ip, 3)]

\* ExecLessThan comparing with <= in place of <.
ExecLessThan_Leq(pm, s) ==
    LET m == s.memory
        rb == s.relative_base
        lhs_param == Index(m, UAdd(s.ip, 1))
        rhs_param == Index(m, UAdd(s.ip, 2))
        dst_param == Index(m, UAdd(s.ip, 3))
        lhs == ReadParam(pm, 0, lhs_param.val, rb, m)
        rhs == ReadParam(pm, 1, rhs_param.val, rb, m)
        value == IF WLe(lhs.val, rhs.val) THEN W(1) ELSE Zero
        wr == WriteParam(pm, 2, dst_param.val, rb, value, m)
        err == FirstErr(<<lhs_param.err, rhs_param.err, dst_param.err,
                          lhs.err, rhs.err, wr.err>>)
    IN  IF err # NoErr THEN Panic(s, err)
        ELSE [Result(s, "Running") EXCEPT !.memory = wr.memory, !.ip = UAdd(s.ip, 4)]

ExecLessThan(pm, s) ==
    LET m == s.memory
        rb == s.relative_base
        lhs_param == Index(m, UAdd(s.ip, 1))
        rhs_param == Index(m, UAdd(s.ip, 2))
        dst_param == Index(m, UAdd(s.ip, 3))
        lhs == ReadParam(pm, 0, lhs_param.val, rb, m)
        rhs == ReadParam(pm, 1, rhs_param.val, rb, m)
        value == IF WLt(lhs.val, rhs.val) THEN W(1) ELSE Zero
        wr == WriteParam(pm, 2, dst_param.val, rb, value, m)
        err == FirstErr(<<lhs_param.err, rhs_param.err, dst_param.err,
                          lhs.err, rhs.err, wr.err>>)
    IN  IF err # NoErr THEN Panic(s, err)
        ELSE [Result(s, "Running") EXCEPT !.memory = wr.memory, !.ip = UAdd(s.ip, 4)]

ExecEquals(pm, s) ==
    LET m == s.memory
        rb == s.relative_base
        lhs_param == Index(m, UAdd(s.ip, 1))
        rhs_param == Index(m, UAdd(s.ip, 2))
        dst_param == Index(m, UAdd(s.ip, 3))
        lhs == ReadParam(pm, 0, lhs_param.val, rb, m)
        rhs == ReadParam(pm, 1, rhs_param.val, rb, m)
        value == IF lhs.val = rhs.val THEN W(1) ELSE Zero
        wr == WriteParam(pm, 2, dst_param.val, rb, value, m)
        err == FirstErr(<<lhs_param.err, rhs_param.err, dst_param.err,
                          lhs.err, rhs.err, wr.err>>)
    IN  IF err # NoErr THEN Panic(s, err)
        ELSE [Result(s, "Running") EXCEPT !.memory = wr.memory, !.ip = UAdd(s.ip, 4)]

\* ExecAdjustRelativeBase assigning the operand to the relative base.
ExecAdjustRelativeBase_Assign(pm, s) ==
    LET param == Index(s.memory, UAdd(s.ip, 1))
        adjust_by == ReadParam(pm, 0, param.val, s.relative_base, s.memory)
        err == FirstErr(<<param.err, adjust_by.err>>)
    IN  IF err # NoErr THEN Panic(s, err)
        ELSE [Result(s, "Running") EXCEPT
                 !.relative_base = adjust_by.val,
                 !.ip = UAdd(s.ip, 2)]

ExecAdjustRelativeBase(pm, s) ==
    LET param == Index(s.memory, UAdd(s.ip, 1))
        adjust_by == ReadParam(pm, 0, param.val, s.relative_base, s.memory)
        err == FirstErr(<<param.err, adjust_by.err>>)
    IN  IF err # NoErr THEN Panic(s, err)
        ELSE [Result(s, "Running") EXCEPT
                 !.relative_base = WAdd(s.relative_base, adjust_by.val),
                 !.ip = UAdd(s.ip, 2)]

\* Halt moving the pointer past its word, as the other instructions do.
ExecHalt_Advance(pm, s) == [Result(s, "Halt") EXCEPT !.ip = UAdd(s.ip, 1)]

\* Halt reported as Running, so that the run loop goes on.
ExecHalt_Running(pm, s) == Result(s, "Running")

ExecHalt(pm, s) == Result(s, "Halt")

Instruction_run(opcode, pm, s) ==
    CASE opcode = "Add" -> ExecAdd(pm, s)
      [] opcode = "Multiply" -> ExecMultiply(pm, s)
      [] opcode = "Input" -> ExecInput(pm, s)
      [] opcode = "Output" -> ExecOutput(pm, s)
      [] opcode = "JumpIfTrue" -> ExecJumpIfTrue(pm, s)
      [] opcode = "JumpIfFalse" -> ExecJumpIfFalse(pm, s)
      [] opcode = "LessThan" -> ExecLessThan(pm, s)
      [] opcode = "Equals" -> ExecEquals(pm, s)
      [] opcode = "AdjustRelativeBase" -> ExecAdjustRelativeBase(pm, s)
      [] opcode = "Halt" -> ExecHalt(pm, s)

\* One iteration of the loop of IntcodeComputer::run: fetch the word at the
\* pointer, decode it, run it.  The decoder works on plain integers: a word
\* that reaches 2^64 is outside the model.
StepOf(s) ==
    LET word == Index(s.memory, s.ip) IN
    IF word.err # NoErr THEN Panic(s, word.err)
    ELSE IF Hi(word.val) # 0 THEN Panic(s, ErrBeyond)
    ELSE LET instruction == Instruction_decode(Lo(word.val)) IN
         IF instruction.err # NoErr THEN Panic(s, instruction.err)
         ELSE Instruction_run(instruction.opcode, instruction.param_modes, s)

--------------------------------------------------------------------------
\* State.

VARIABLES
    memory,         \* IntcodeComputer.memory
    ip,             \* IntcodeComputer.state.ip
    relative_base,  \* IntcodeComputer.state.relative_base
    input_buffer,   \* IoBuffer.values of the input buffer, front first
    output_buffer,  \* IoBuffer.values of the output buffer, front first
    pc,             \* "host": the caller has control, no run call made yet or
                    \* its result consumed; "run": inside IntcodeComputer::run;
                    \* "returned": run has returned stop; "panic": aborted
    stop,           \* the StopStatus of the last return of run
    fatal,          \* the panic that aborted the process
    program,        \* the program the machine was constructed from
    calls,          \* run invocations so far
    stops,          \* the StopStatus of every return of run, in order
    produced,       \* every value the engine has written to the output buffer, in order
    pushed,         \* every value the free host has pushed, in order
    first_in,       \* the input buffer at the first run invocation
    in_at_call,     \* the input buffer at the last run invocation
    out_at_call,    \* the output buffer at the last run invocation
    phase,          \* position of the caller: "free" for the free host,
                    \* "resolver" for the resolver alone, else the position
                    \* in Solution::run
    script,         \* spring_script, the argument of Solution::run
    log,            \* the bytes printed to standard output
    damage,         \* the Option read by Solution::run after the text
    resolver,       \* one use of ParamMode::read / ParamMode::write:
                    \* [mode, param, value, op, err, val, before]
    harness         \* one use of the decoder or of an IoBuffer on its own:
                    \* the arguments drawn and the result returned

machine_vars == <<memory, ip, relative_base, input_buffer, output_buffer>>
control_vars == <<pc, stop, fatal>>
history_vars ==
    <<program, calls, stops, produced, pushed, first_in, in_at_call, out_at_call>>
driver_vars == <<phase, script, log, damage>>
vars == <<machine_vars, control_vars, history_vars, driver_vars, resolver, harness>>

Machine ==
    [memory |-> memory, ip |-> ip, relative_base |-> relative_base,
     input_buffer |-> input_buffer, output_buffer |-> output_buffer]

\* The part of the value space the model explores.
InVal(v) == Abs(Hi(v)) <= MaxHi /\ Abs(Lo(v)) <= MaxVal

InBounds(r) ==
    /\ r.err # ErrBeyond
    /\ InVal(r.relative_base)
    /\ \A a \in DOMAIN r.memory : InVal(r.memory[a])
    /\ Len(r.output_buffer) <= MaxOut

--------------------------------------------------------------------------
\* Programs.

\* spec.md section 8 scenarios
ProgSelfAdd == <<1, 0, 0, 0, 99>>
ProgImmMul == <<1002, 4, 3, 4, 33>>
ProgEcho == <<3, 0, 4, 0, 99>>
ProgSelfCopy == <<109, 1, 204, -1, 1101, 100, -1, 204, 9, 1101, 100, 1, 204, 9, 99>>

ScenarioPrograms == {ProgSelfAdd, ProgImmMul, ProgEcho, ProgSelfCopy}

\* Input and Output in each mode, with and without a relative base.
IoPrograms ==
    { <<109, r, w, p, 4, 0, 99>> :
        r \in {-3, 0, 2}, w \in {3, 103, 203, 4, 104, 204}, p \in {-1, 1, 6, 8} }
    \cup { <<3, 5, 3, 6, 104, 0, 0>>, <<3, 1, 99>>, <<4, 1, 4, 0, 4, 3, 99>>,
           <<3, 2, 0, 0>>, <<104, 5, 104, 6, 104, 7, 104, 8, 99>> }

\* Addresses beyond the capacity and below zero.
AddressPrograms ==
    { <<4, MemCap, 99>>, <<4, -1, 99>>, <<3, MemCap, 99>>,
      <<109, MemCap - 1, 204, 0, 204, 1, 99>>,
      <<109, -5, 204, 9, 22201, 5, 6, 7, 204, 1, 99>>,
      <<109, -5, 203, 7, 204, 7, 203, 4, 99>>,
      <<109, -5, 209, 8, 204, 3, 99>>, <<9, 5, 209, -2, 204, 2, -7, 99>> }

\* Jumps, loops, decode errors.
ControlPrograms ==
    { <<1105, 1, 3, 1105, 1, 0>>, <<4, 0, 1105, 1, 0>>,
      <<3, 9, 1105, 1, 0>>,
      <<1105, 0, 9, 104, 1, 99>>, <<1106, 0, 4, 99, 104, 2, 99>>,
      <<5, 1, 2, 99>>, <<1005, 9, 3, 99>>, <<2105, 1, 5, 99, 0, 99>>,
      <<1105, 1, -1>>, <<1106, 0, MemCap>>,
      <<3105, 0, 0, 99>>, <<3105, 1, 0, 99>>, <<1305, 1, 0, 99>>,
      <<0>>, <<-1>>, <<-99>>, <<100>>, <<199>>, <<10>>, <<301, 0, 0, 0>>,
      <<31001, 0, 0, 0, 99>>, <<1, 0, 0, 0>>,
      <<1001, 8, -1, 8, 1005, 8, 0, 99, 3>> }

\* Add, Multiply, LessThan and Equals in every combination of mode digits.
ArithWords ==
    { op + 100 * m0 + 1000 * m1 + 10000 * m2 :
        op \in {1, 2, 7, 8}, m0 \in 0..2, m1 \in 0..2, m2 \in 0..2 }

ArithParams == { <<0, 4, 7>>, <<-1, 5, 6>>, <<5, 5, -1>> }

ArithPrograms ==
    { <<109, r, w, ps[1], ps[2], ps[3], 99, 5>> :
        r \in {1}, w \in ArithWords, ps \in ArithParams }

\* The program ns with hi * 2^64 added to the word at address a.
WideAt(ns, a, hi) ==
    [i \in DOMAIN ns |-> IF i = a + 1 THEN Wide(hi, ns[i]) ELSE W(ns[i])]

\* Addresses and jump targets that reach 2^64:
\* 4,2^64+2,99   3,2^64+2,4,2,99   1101,4,5,2^64+6,4,6,99   109,2^64,204,0,99
\* 1105,1,4-2^64,0,99   1105,1,2^64+4,0,99   1105,1,2^64-1
WidePrograms ==
    { WideAt(<<4, 2, 99>>, 1, 1), WideAt(<<3, 2, 4, 2, 99>>, 1, 1),
      WideAt(<<1101, 4, 5, 6, 4, 6, 99>>, 3, 1),
      WideAt(<<109, 0, 204, 0, 99>>, 1, 1),
      WideAt(<<1105, 1, 4, 0, 99>>, 2, -1), WideAt(<<1105, 1, 4, 0, 99>>, 2, 1),
      WideAt(<<1105, 1, -1>>, 2, 1) }

Programs ==
    { Narrow(ns) : ns \in ScenarioPrograms \cup IoPrograms \cup AddressPrograms
                          \cup ControlPrograms \cup ArithPrograms }
        \cup WidePrograms

\* The values the free host pushes.
InputVals == {W(0), W(7)}

--------------------------------------------------------------------------
\* The engine driven by a free host: any interleaving of pushes to the input
\* buffer and invocations of IntcodeComputer::run.

\* Solution::new / IntcodeComputer::new
InitMachine(prog) ==
    /\ memory = NewMemory(prog)
    /\ ip = W(0)
    /\ relative_base = Zero
    /\ input_buffer = << >>
    /\ output_buffer = << >>
    /\ pc = "host"
    /\ stop = "none"
    /\ fatal = NoErr
    /\ program = prog
    /\ calls = 0
    /\ stops = << >>
    /\ produced = << >>
    /\ pushed = << >>
    /\ first_in = << >>
    /\ in_at_call = << >>
    /\ out_at_call = << >>

NoHarness == [op |-> "none"]

NoResolver ==
    [mode |-> "none", param |-> Zero, value |-> Zero, op |-> "none",
     err |-> NoErr, val |-> Zero, before |-> << >>]

Init ==
    /\ \E prog \in Programs : InitMachine(prog)
    /\ phase = "free"
    /\ script = << >>
    /\ log = << >>
    /\ damage = << >>
    /\ resolver = NoResolver
    /\ harness = NoHarness

\* IoBuffer::write on the input buffer, by the host.
Push(v) ==
    /\ phase = "free"
    /\ pc \in {"host", "returned"}
    /\ Len(pushed) < MaxIn
    /\ input_buffer' = Append(input_buffer, v)
    /\ pushed' = Append(pushed, v)
    /\ UNCHANGED <<memory, ip, relative_base, output_buffer, control_vars,
                   program, calls, stops, produced, first_in, in_at_call, out_at_call,
                   driver_vars, resolver, harness>>

\* The host invokes IntcodeComputer::run.
CallRun ==
    /\ phase = "free"
    /\ pc \in {"host", "returned"}
    /\ calls < MaxCalls
    /\ pc' = "run"
    /\ calls' = calls + 1
    /\ first_in' = IF calls = 0 THEN input_buffer ELSE first_in
    /\ in_at_call' = input_buffer
    /\ out_at_call' = output_buffer
    /\ UNCHANGED <<machine_vars, stop, fatal, program, stops, produced, pushed,
                   driver_vars, resolver, harness>>

\* One iteration of the loop of IntcodeComputer::run.
Execute ==
    /\ pc = "run"
    /\ \E r \in {StepOf(Machine)} :
       /\ InBounds(r)
       /\ memory' = r.memory
       /\ ip' = r.ip
       /\ relative_base' = r.relative_base
       /\ input_buffer' = r.input_buffer
       /\ output_buffer' = r.output_buffer
       /\ fatal' = r.err
       /\ pc' = IF r.err # NoErr THEN "panic"
                ELSE IF r.status = "Running" THEN "run" ELSE "returned"
       /\ stop' = IF r.err = NoErr /\ r.status # "Running" THEN r.status ELSE stop
       /\ stops' = IF r.err = NoErr /\ r.status # "Running"
                   THEN Append(stops, r.status) ELSE stops
       /\ produced' = produced \o SubSeq(r.output_buffer, Len(output_buffer) + 1,
                                          Len(r.output_buffer))
    /\ UNCHANGED <<program, calls, pushed, first_in, in_at_call, out_at_call,
                   driver_vars, resolver, harness>>

Next == (\E v \in InputVals : Push(v)) \/ CallRun \/ Execute

Spec == Init /\ [][Next]_vars

\* The run loop is a loop of one thread: while it has not returned it goes
\* on to the next instruction.
\* Programs that loop, with and without input and output, that halt and
\* that panic.
LoopPrograms ==
    { <<1105, 1, 3, 1105, 1, 0>>, <<4, 0, 1105, 1, 0>>, <<3, 9, 1105, 1, 0>>,
      <<1001, 8, -1, 8, 1005, 8, 0, 99, 3>>, <<3, 0, 4, 0, 99>>,
      <<1106, 0, 4, 99, 104, 2, 99>>, <<99>>, <<1105, 1, -1>> }

\* The free host with the programs that loop.
InitFair ==
    /\ \E prog \in LoopPrograms : InitMachine(Narrow(prog))
    /\ phase = "free"
    /\ script = << >>
    /\ log = << >>
    /\ damage = << >>
    /\ resolver = NoResolver
    /\ harness = NoHarness

SpecFair == InitFair /\ [][Next]_vars /\ WF_vars(Execute)

--------------------------------------------------------------------------
\* The addressing mode resolver alone: one ParamMode::write, one
\* ParamMode::read, or a write followed by a read with the same mode,
\* parameter and relative base, on a memory and arguments drawn at Init.

ResolverModes == {"Positional", "Immediate", "Relative"}
ResolverMemories ==
    { NewMemory(Narrow(<<11, 22, 33>>)),
      MemSet(NewMemory(Narrow(<<5>>)), MemCap - 1, W(44)) }
\* 1 - 2^64, -2 .. 2, MemCap - 1, MemCap, 2^64, 2^64 + 1
ResolverParams ==
    { Wide(-1, 1), W(-2), W(-1), W(0), W(1), W(2), W(MemCap - 1), W(MemCap),
      Wide(1, 0), Wide(1, 1) }
ResolverBases == { W(-2), W(0), W(1), Wide(1, 0) }
ResolverValues == { W(0), W(9) }

InitResolver ==
    /\ memory \in ResolverMemories
    /\ relative_base \in ResolverBases
    /\ \E md \in ResolverModes, p \in ResolverParams, v \in ResolverValues :
          resolver = [mode |-> md, param |-> p, value |-> v, op |-> "none",
                      err |-> NoErr, val |-> Zero, before |-> memory]
    /\ ip = W(0)
    /\ input_buffer = << >>
    /\ output_buffer = << >>
    /\ pc = "host"
    /\ stop = "none"
    /\ fatal = NoErr
    /\ program = << >>
    /\ calls = 0
    /\ stops = << >>
    /\ produced = << >>
    /\ pushed = << >>
    /\ first_in = << >>
    /\ in_at_call = << >>
    /\ out_at_call = << >>
    /\ phase = "resolver"
    /\ harness = NoHarness
    /\ script = << >>
    /\ log = << >>
    /\ damage = << >>

\* mode.write(ParamArgs { param, relative_base }, value, memory)
ResolverWrite ==
    /\ phase = "resolver"
    /\ resolver.op = "none"
    /\ LET r == ParamMode_write(resolver.mode, resolver.param, relative_base,
                                resolver.value, memory) IN
       /\ memory' = r.memory
       /\ resolver' = [resolver EXCEPT
              !.op = IF r.err = NoErr THEN "written" ELSE "write_panic",
              !.err = r.err]
    /\ UNCHANGED <<ip, relative_base, input_buffer, output_buffer, control_vars,
                   history_vars, driver_vars, harness>>

\* mode.read(ParamArgs { param, relative_base }, memory)
ResolverRead ==
    /\ phase = "resolver"
    /\ resolver.op \in {"none", "written"}
    /\ LET r == ParamMode_read(resolver.mode, resolver.param, relative_base, memory) IN
       resolver' = [resolver EXCEPT
              !.op = IF r.err # NoErr THEN "read_panic"
                     ELSE IF resolver.op = "written" THEN "round_trip" ELSE "read",
              !.err = r.err,
              !.val = r.val]
    /\ UNCHANGED <<machine_vars, control_vars, history_vars, driver_vars, harness>>

NextResolver == ResolverWrite \/ ResolverRead

SpecResolver == InitResolver /\ [][NextResolver]_vars

--------------------------------------------------------------------------
\* The instruction decoder alone: Instruction::decode of a word drawn at
\* Init, then ParamModes::nth(n) of the decoded instruction.

\* Words are drawn from -MaxWord..MaxWord and from the five-digit words.
MaxWord == 1250

DecoderWords ==
    (-MaxWord..MaxWord)
        \cup { sg * (op + 100 * d0 + 1000 * d1 + 10000 * d2) :
                 sg \in {-1, 1}, op \in {1, 2, 50, 99}, d0 \in {0, 2, 3},
                 d1 \in {0, 1, 9}, d2 \in 0..3 }

\* No machine and no driver exist while a decoder or a channel is used alone.
NoMachine ==
    /\ memory = << >>
    /\ ip = W(0)
    /\ relative_base = Zero
    /\ input_buffer = << >>
    /\ output_buffer = << >>
    /\ pc = "host"
    /\ stop = "none"
    /\ fatal = NoErr
    /\ program = << >>
    /\ calls = 0
    /\ stops = << >>
    /\ produced = << >>
    /\ pushed = << >>
    /\ first_in = << >>
    /\ in_at_call = << >>
    /\ out_at_call = << >>
    /\ script = << >>
    /\ log = << >>
    /\ damage = << >>
    /\ resolver = NoResolver

InitDecoder ==
    /\ \E w \in DecoderWords, n \in 0..2 :
          harness = [op |-> "none", word |-> w, n |-> n, err |-> NoErr,
                     opcode |-> "none", param_modes |-> 0, mode |-> "none"]
    /\ phase = "decoder"
    /\ NoMachine

\* Instruction::decode(word)
DecoderDecode ==
    /\ phase = "decoder"
    /\ harness.op = "none"
    /\ LET d == Instruction_decode(harness.word) IN
       harness' = [harness EXCEPT
              !.op = IF d.err = NoErr THEN "decoded" ELSE "decode_panic",
              !.err = d.err,
              !.opcode = d.opcode,
              !.param_modes = d.param_modes]
    /\ UNCHANGED <<machine_vars, control_vars, history_vars, driver_vars, resolver>>

\* instruction.param_modes.nth(n)
DecoderNth ==
    /\ phase = "decoder"
    /\ harness.op = "decoded"
    /\ LET md == ParamModes_nth(harness.param_modes, harness.n) IN
       harness' = [harness EXCEPT
              !.op = IF md.err = NoErr THEN "mode" ELSE "mode_panic",
              !.err = md.err,
              !.mode = md.mode]
    /\ UNCHANGED <<machine_vars, control_vars, history_vars, driver_vars, resolver>>

NextDecoder == DecoderDecode \/ DecoderNth

SpecDecoder == InitDecoder /\ [][NextDecoder]_vars

--------------------------------------------------------------------------
\* IoBuffer: the VecDeque values, front first.

\* IoBuffer::read taking the value written last (pop_back).
IoBuffer_read_Back(values) ==
    IF values = << >>
    THEN [some |-> FALSE, val |-> Zero, values |-> << >>]
    ELSE [some |-> TRUE, val |-> values[Len(values)],
          values |-> SubSeq(values, 1, Len(values) - 1)]

\* IoBuffer::read: pop_front; some is FALSE for None.
IoBuffer_read(values) ==
    IF values = << >>
    THEN [some |-> FALSE, val |-> Zero, values |-> << >>]
    ELSE [some |-> TRUE, val |-> Head(values), values |-> Tail(values)]

\* IoBuffer::drain: values.drain(..) collected by the caller.
IoBuffer_drain(values) == [ret |-> values, values |-> << >>]

\* IoBuffer::write: push_back.
IoBuffer_write(values, value) == Append(values, value)

\* IoBuffer::len
IoBuffer_len(values) == Len(values)

--------------------------------------------------------------------------
\* Text.  A str is the sequence of its characters; its bytes are their ASCII
\* codes (every character the program writes is ASCII).  A String read back
\* from the output buffer is the sequence of its bytes.

NL == "\n"

\* s.bytes(): the code of each character of the host's command lines.
ByteOf(c) ==
    CASE c = NL -> 10  [] c = " " -> 32
      [] c = "A" -> 65 [] c = "B" -> 66 [] c = "C" -> 67 [] c = "D" -> 68
      [] c = "J" -> 74 [] c = "K" -> 75 [] c = "L" -> 76 [] c = "N" -> 78
      [] c = "O" -> 79 [] c = "R" -> 82 [] c = "T" -> 84 [] c = "W" -> 87

StrBytes(s) == [i \in 1..Len(s) |-> ByteOf(s[i])]

\* SPRING_SCRIPT
SPRING_SCRIPT ==
    << <<"N", "O", "T", " ", "C", " ", "T">>,
       <<"A", "N", "D", " ", "D", " ", "T">>,
       <<"N", "O", "T", " ", "A", " ", "J">>,
       <<"O", "R", " ", "T", " ", "J">> >>

\* The literal "WALK\n" of Solution::run
WALK == <<"W", "A", "L", "K", NL>>

\* std::str::from_utf8 accepts the byte sequence b.
RECURSIVE Utf8Valid(_)
Utf8Valid(b) ==
    IF b = << >> THEN TRUE
    ELSE LET c == b[1]
             n == Len(b)
             Cont(i) == i <= n /\ b[i] \in 128..191
             Rest(k) == Utf8Valid(SubSeq(b, k + 1, n))
         IN  CASE c <= 127 -> Rest(1)
               [] c \in 194..223 -> Cont(2) /\ Rest(2)
               [] c = 224 -> n >= 2 /\ b[2] \in 160..191 /\ Cont(3) /\ Rest(3)
               [] c \in (225..236) \cup (238..239) -> Cont(2) /\ Cont(3) /\ Rest(3)
               [] c = 237 -> n >= 2 /\ b[2] \in 128..159 /\ Cont(3) /\ Rest(3)
               [] c = 240 ->
                    n >= 2 /\ b[2] \in 144..191 /\ Cont(3) /\ Cont(4) /\ Rest(4)
               [] c \in 241..243 -> Cont(2) /\ Cont(3) /\ Cont(4) /\ Rest(4)
               [] c = 244 ->
                    n >= 2 /\ b[2] \in 128..143 /\ Cont(3) /\ Cont(4) /\ Rest(4)
               [] OTHER -> FALSE

\* The number of values at the front of the queue that the loop of
\* drain_ascii_string pops: those before the first one above 127.
RECURSIVE AsciiRunLen(_)
AsciiRunLen(values) ==
    IF values # << >> /\ WLe(Head(values), W(127))
    THEN 1 + AsciiRunLen(Tail(values))
    ELSE 0

\* IoBuffer::drain_ascii_string: the String returned (text), the queue left
\* (values), or the panic of the unwrap.
IoBuffer_drain_ascii_string(values) ==
    LET n == AsciiRunLen(values)
        buffer == [i \in 1..n |-> AsU8(values[i])]
        rest == SubSeq(values, n + 1, Len(values))
    IN  IF Utf8Valid(buffer)
        THEN [err |-> NoErr, text |-> buffer, values |-> rest]
        ELSE [err |-> ErrUtf8, text |-> << >>, values |-> rest]

\* IoBuffer::write_ascii_string: the queue after the bytes of s are written,
\* each as an i128.
IoBuffer_write_ascii_string(values, s) == values \o Narrow(StrBytes(s))

\* WriteScript without the newline that format!("{}\n", s) puts after each
\* line.
RECURSIVE WriteScript_NoNewline(_, _, _)
WriteScript_NoNewline(values, spring_script, k) ==
    IF k > Len(spring_script)
    THEN IoBuffer_write_ascii_string(values, WALK)
    ELSE WriteScript_NoNewline(
             IoBuffer_write_ascii_string(values, spring_script[k]),
             spring_script, k + 1)

\* The for loop of Solution::run and the write of WALK: the queue after the
\* lines of spring_script from index k on, each followed by a newline, and
\* then WALK, are written.
RECURSIVE WriteScript(_, _, _)
WriteScript(values, spring_script, k) ==
    IF k > Len(spring_script)
    THEN IoBuffer_write_ascii_string(values, WALK)
    ELSE WriteScript(
             IoBuffer_write_ascii_string(values, Append(spring_script[k], NL)),
             spring_script, k + 1)

\* What Echo::On prints while that is written.
RECURSIVE EchoScript(_, _)
EchoScript(spring_script, k) ==
    IF k > Len(spring_script)
    THEN StrBytes(WALK)
    ELSE StrBytes(Append(spring_script[k], NL)) \o EchoScript(spring_script, k + 1)

\* The decimal digits of n >= 0, and what println!("{}", n) prints.
RECURSIVE DecimalDigits(_)
DecimalDigits(n) ==
    IF n < 10 THEN <<48 + n>>
    ELSE Append(DecimalDigits(n \div 10), 48 + (n % 10))

PrintlnI128(n) ==
    (IF n < 0 THEN <<45>> \o DecimalDigits(-n) ELSE DecimalDigits(n)) \o <<10>>

--------------------------------------------------------------------------
\* Solution::run: the session of the springscript driver.

\* The arms of the match in run_until_input and in run_until_halt.
\* RunUntilInputArm returning on Halt as it does on WaitForInput.
RunUntilInputArm_ReturnOnHalt(status) ==
    CASE status = "WaitForInput" -> "return"
      [] status = "Halt" -> "return"
      [] status = "WroteOutput" -> "loop"

RunUntilInputArm(status) ==
    CASE status = "WaitForInput" -> "return"
      [] status = "Halt" -> ErrHalt
      [] status = "WroteOutput" -> "loop"

RunUntilHaltArm(status) ==
    CASE status = "WaitForInput" -> ErrWait
      [] status = "Halt" -> "return"
      [] status = "WroteOutput" -> "loop"

\* The programs the driver is run on: a prompt, reads, text and a number;
\* a halt before any read; more reads than the script feeds; output that is
\* not text; engine panics.
DriverPrograms ==
    { <<104, 72, 104, 10, 3, 50, 3, 51, 104, 65, 104, 200, 99>>,
      <<104, 72, 99>>, <<99>>,
      <<3, 9, 1105, 1, 0>>,
      <<3, 9, 99>>, <<3, 9, 104, 65, 99>>,
      <<104, 200, 3, 9, 99>>, <<104, 200, 3, 9, 104, 66, 99>>,
      <<3, 9, 104, 200, 104, 65, 99>>, <<3, 9, 104, 200, 104, 300, 99>>,
      <<104, -1, 3, 9, 99>>, <<3, 9, 104, -200, 104, 400, 99>>,
      <<3, 9, 104, -61, 104, -87, 99>>, <<3, 9, 104, 128, 99>>,
      <<3, 9, 104, 72, 104, -1, 99>>, <<104, 72, 104, 300, 3, 9, 99>>,
      <<3, 9, 104, 127, 104, 0, 104, -1000, 99>>,
      <<3, 9, 0>>, <<104, 72, 4, -1>>,
      <<104, 72, 3, 9, 3, 9, 3, 9, 104, 74, 3, 9, 3, 9, 3, 9, 3, 9,
        3, 9, 3, 9, 3, 9, 3, 9, 3, 9, 3, 9, 104, 5, 99>> }

DriverScripts ==
    { SPRING_SCRIPT, << >>, << <<"N", "O", "T", " ", "A", " ", "J">> >>,
      << <<"O", "R", " ", "B", " ", "T">>, << >> >> }

\* Solution::new, and the argument of Solution::run
InitDriver ==
    /\ \E prog \in DriverPrograms : InitMachine(Narrow(prog))
    /\ phase = "awaiting_input"
    /\ script \in DriverScripts
    /\ log = << >>
    /\ damage = << >>
    /\ resolver = NoResolver
    /\ harness = NoHarness

\* self.computer.run(..) in the loop of run_until_input or run_until_halt.
DriverCallRun ==
    /\ phase \in {"awaiting_input", "run_to_completion"}
    /\ pc = "host"
    /\ pc' = "run"
    /\ calls' = calls + 1
    /\ first_in' = IF calls = 0 THEN input_buffer ELSE first_in
    /\ in_at_call' = input_buffer
    /\ out_at_call' = output_buffer
    /\ UNCHANGED <<machine_vars, stop, fatal, program, stops, produced, pushed,
                   driver_vars, resolver, harness>>

\* The match of run_until_input on the StopStatus returned.
RunUntilInputMatch ==
    /\ phase = "awaiting_input"
    /\ pc = "returned"
    /\ LET arm == RunUntilInputArm(stop) IN
       /\ phase' = CASE arm = "return" -> "feeding"
                     [] arm = "loop" -> phase
                     [] OTHER -> "abort"
       /\ pc' = IF arm \in {"return", "loop"} THEN "host" ELSE "panic"
       /\ fatal' = IF arm \in {"return", "loop"} THEN fatal ELSE arm
    /\ UNCHANGED <<machine_vars, stop, history_vars, script, log, damage, resolver, harness>>

\* Solution::run between run_until_input and run_until_halt: print the text
\* drained from the output buffer, write and echo the script and WALK.
Feed ==
    /\ phase = "feeding"
    /\ LET d == IoBuffer_drain_ascii_string(output_buffer) IN
       /\ output_buffer' = d.values
       /\ IF d.err # NoErr
          THEN /\ phase' = "abort"
               /\ pc' = "panic"
               /\ fatal' = d.err
               /\ UNCHANGED <<input_buffer, log>>
          ELSE /\ phase' = "run_to_completion"
               /\ input_buffer' = WriteScript(input_buffer, script, 1)
               /\ log' = log \o d.text \o EchoScript(script, 1)
               /\ UNCHANGED <<pc, fatal>>
    /\ UNCHANGED <<memory, ip, relative_base, stop, history_vars, script, damage,
                   resolver, harness>>

\* The match of run_until_halt on the StopStatus returned.
RunUntilHaltMatch ==
    /\ phase = "run_to_completion"
    /\ pc = "returned"
    /\ LET arm == RunUntilHaltArm(stop) IN
       /\ phase' = CASE arm = "return" -> "report"
                     [] arm = "loop" -> phase
                     [] OTHER -> "abort"
       /\ pc' = IF arm \in {"return", "loop"} THEN "host" ELSE "panic"
       /\ fatal' = IF arm \in {"return", "loop"} THEN fatal ELSE arm
    /\ UNCHANGED <<machine_vars, stop, history_vars, script, log, damage, resolver, harness>>

\* Solution::run after run_until_halt: print the text drained from the
\* output buffer, then read one more value and print it if there is one.
\* The digits printed are those of a plain integer: a number that reaches
\* 2^64 is outside the model.
Report ==
    /\ phase = "report"
    /\ LET d == IoBuffer_drain_ascii_string(output_buffer) IN
       /\ (d.err = NoErr /\ d.values # << >>) => Hi(Head(d.values)) = 0
       /\ IF d.err # NoErr
          THEN /\ phase' = "abort"
               /\ pc' = "panic"
               /\ fatal' = d.err
               /\ output_buffer' = d.values
               /\ UNCHANGED <<log, damage>>
          ELSE /\ phase' = "done"
               /\ IF d.values # << >>
                  THEN /\ damage' = <<Head(d.values)>>
                       /\ output_buffer' = Tail(d.values)
                       /\ log' = log \o d.text \o PrintlnI128(Lo(Head(d.values)))
                  ELSE /\ damage' = << >>
                       /\ output_buffer' = d.values
                       /\ log' = log \o d.text
               /\ UNCHANGED <<pc, fatal>>
    /\ UNCHANGED <<memory, ip, relative_base, input_buffer, stop, history_vars,
                   script, resolver, harness>>

NextDriver ==
    DriverCallRun \/ Execute \/ RunUntilInputMatch \/ Feed \/ RunUntilHaltMatch
        \/ Report

SpecDriver == InitDriver /\ [][NextDriver]_vars

--------------------------------------------------------------------------
\* Properties.  The instruction about to execute, read off the state.

CurCell == MemGet(memory, Lo(ip))
CurWord == Lo(CurCell)

\* The engine is about to execute an instruction with this opcode.
AtOp(op) ==
    /\ pc = "run"
    /\ Hi(ip) = 0 /\ Lo(ip) < MemCap
    /\ Hi(CurCell) = 0
    /\ Instruction_decode(CurWord).err = NoErr
    /\ Instruction_decode(CurWord).opcode = op

\* The raw parameter n (0-based) and its mode digit.
RawParam(n) == MemGet(memory, Lo(ip) + 1 + n)
ModeDigit(n) == ((CurWord \div 100) \div (10 ^ n)) % 10

\* The cell a parameter designates in modes 0 and 2, and the value it
\* supplies as an operand, when the access is not a panic.
CellOfParam(n) ==
    Lo(AsUsize(IF ModeDigit(n) = 2 THEN WAdd(RawParam(n), relative_base)
               ELSE RawParam(n)))
OperandOfParam(n) ==
    IF ModeDigit(n) = 1 THEN RawParam(n) ELSE MemGet(memory, CellOfParam(n))

\* Only cell d may differ between memories m1 and m2, and it holds v in m2.
OnlyCellChanged(m1, m2, d, v) ==
    /\ MemGet(m2, d) = v
    /\ \A a \in ((DOMAIN m1) \cup (DOMAIN m2)) \ {d} : MemGet(m2, a) = MemGet(m1, a)

\* C1: an Input instruction on an empty input buffer returns WaitForInput
\* from the step and from run and leaves memory, pointer, relative base and
\* both buffers as they were, as often as it is retried; with a value
\* queued it takes exactly the front value, and unless the write is a
\* panic stores it in the cell parameter 0 designates, advances the pointer
\* by 2 and keeps running.
C1_InputStep ==
    AtOp("Input") =>
        IF input_buffer = << >>
        THEN /\ pc' = "returned"
             /\ stop' = "WaitForInput"
             /\ fatal' = NoErr
             /\ UNCHANGED machine_vars
        ELSE /\ input_buffer' = Tail(input_buffer)
             /\ fatal' = NoErr =>
                   /\ pc' = "run"
                   /\ ip' = UAdd(ip, 2)
                   /\ OnlyCellChanged(memory, memory', CellOfParam(0), Head(input_buffer))
                   /\ UNCHANGED <<relative_base, output_buffer>>

C1_InputWaitsThenConsumesOnce == [][C1_InputStep]_vars

\* C1 witness: the echo program waited twice on an empty buffer, the host
\* then pushed one value and the third run stored it and went on.
C1_Witness ==
    /\ program = Narrow(ProgEcho)
    /\ stops = <<"WaitForInput", "WaitForInput", "WroteOutput">>
    /\ pushed = Narrow(<<7>>)
    /\ input_buffer = << >>
    /\ MemGet(memory, 0) = W(7)

\* C2: an Output instruction that does not panic returns WroteOutput,
\* appends its operand to the back of the output buffer, advances the
\* pointer by 2 and changes nothing else; one invocation of run appends
\* nothing while it runs or when it panics, and on return it has appended
\* exactly one value if it returned WroteOutput and none otherwise.
C2_OutputStep ==
    AtOp("Output") =>
        IF fatal' = NoErr
        THEN /\ pc' = "returned"
             /\ stop' = "WroteOutput"
             /\ output_buffer' = Append(output_buffer, OperandOfParam(0))
             /\ ip' = UAdd(ip, 2)
             /\ UNCHANGED <<memory, relative_base, input_buffer>>
        ELSE UNCHANGED machine_vars

C2_RunAppends ==
    /\ pc \in {"run", "panic"} => output_buffer = out_at_call
    /\ pc = "returned" =>
          IF stop = "WroteOutput"
          THEN /\ Len(output_buffer) = Len(out_at_call) + 1
               /\ SubSeq(output_buffer, 1, Len(out_at_call)) = out_at_call
          ELSE output_buffer = out_at_call

C2_OneOutputPerRun == [][C2_OutputStep /\ C2_RunAppends']_vars

\* C2 witness: a run has just returned WroteOutput with a second value
\* appended behind an earlier one.
C2_Witness ==
    /\ pc = "returned"
    /\ stop = "WroteOutput"
    /\ Len(out_at_call) = 1
    /\ Len(output_buffer) = 2

\* C3: an Add, Multiply, LessThan or Equals instruction that does not panic
\* returns Running with the pointer advanced by 4; only the cell parameter 2
\* designates may differ afterwards, and it holds lhs + rhs, lhs * rhs,
\* lhs < rhs as 1 or 0, lhs = rhs as 1 or 0; the relative base and both
\* buffers are unchanged.
C3_Value(op) ==
    LET lhs == OperandOfParam(0)
        rhs == OperandOfParam(1)
    IN  CASE op = "Add" -> WAdd(lhs, rhs)
          [] op = "Multiply" -> WMul(lhs, rhs)
          [] op = "LessThan" -> IF WLt(lhs, rhs) THEN W(1) ELSE Zero
          [] op = "Equals" -> IF lhs = rhs THEN W(1) ELSE Zero

C3_ArithStep ==
    \A op \in {"Add", "Multiply", "LessThan", "Equals"} :
        (AtOp(op) /\ fatal' = NoErr) =>
            /\ pc' = "run"
            /\ ip' = UAdd(ip, 4)
            /\ OnlyCellChanged(memory, memory', CellOfParam(2), C3_Value(op))
            /\ UNCHANGED <<relative_base, input_buffer, output_buffer>>

C3_ArithFrame == [][C3_ArithStep]_vars

\* C3 witness: the immediate-mode multiply of spec.md section 8 has stored
\* 33 * 3 in cell 4 and the pointer stands 4 further.
C3_Witness ==
    /\ program = Narrow(ProgImmMul)
    /\ ip = W(4)
    /\ MemGet(memory, 4) = W(99)
    /\ fatal = NoErr

\* The address a resolver access designates in modes 0 and 2.
ResolverAddress ==
    IF resolver.mode = "Relative" THEN WAdd(resolver.param, relative_base)
    ELSE resolver.param

ResolverAddressed == resolver.mode \in {"Positional", "Relative"}

\* The value v is the index of a cell of the memory.
IsCell(v) == Hi(v) = 0 /\ Lo(v) \in 0..(MemCap - 1)

\* C4 as stated: in each of the three modes, a write of v through a mode,
\* parameter and relative base that designate a cell of the memory (or no
\* cell, in Immediate mode) succeeds, and the read through the same mode,
\* parameter and relative base then returns v.
C4_RoundTripAllModes ==
    (ResolverAddressed => IsCell(ResolverAddress)) =>
        /\ resolver.op # "write_panic"
        /\ resolver.op = "round_trip" => resolver.val = resolver.value

\* C4 amended: in Positional and Relative mode, whenever the write of v does
\* not panic (as it does not when the address is a cell of the memory), the
\* read through the same mode, parameter and relative base does not panic
\* and returns v; a write in Immediate mode panics with "attempted to write
\* in immediate mode" and stores nothing.
C4_RoundTripAddressed ==
    /\ ResolverAddressed =>
          /\ resolver.op \in {"written", "round_trip"} =>
                Index(memory, AsUsize(ResolverAddress)).val = resolver.value
          /\ resolver.op = "round_trip" => resolver.val = resolver.value
          /\ (IsCell(ResolverAddress) /\ resolver.op # "none") =>
                resolver.err = NoErr
          /\ resolver.op = "read_panic" => resolver.before = memory
    /\ (resolver.mode = "Immediate" /\ resolver.op \notin {"none", "read"}) =>
          /\ resolver.op = "write_panic"
          /\ resolver.err = ErrImmWrite
          /\ memory = resolver.before

\* C4 witness: a value written through Relative mode with a negative
\* parameter and a positive base has been read back.
C4_Witness ==
    /\ resolver.mode = "Relative"
    /\ resolver.param = W(-1)
    /\ relative_base = W(1)
    /\ resolver.op = "round_trip"
    /\ resolver.val = W(9)
    /\ MemGet(memory, 0) = W(9)

\* C7: a read or write through Positional or Relative mode whose address
\* (the parameter, or the parameter plus the relative base) is negative or
\* not below the capacity panics and leaves every cell as it was.
C7_OutOfRangeIsFatal ==
    (/\ ResolverAddressed
     /\ resolver.op # "none"
     /\ ~IsCell(ResolverAddress)) =>
        /\ resolver.err # NoErr
        /\ memory = resolver.before

\* s is a prefix of t.
IsPrefix(s, t) == Len(s) <= Len(t) /\ SubSeq(t, 1, Len(s)) = s

\* The machine was built from prog and the host has pushed nothing.
FreshRunOf(prog) == program = prog /\ pushed = << >>

\* C5 as stated: the 15-word program of spec.md section 8, run with an empty
\* input buffer and re-invoked after each WroteOutput, never panics, outputs
\* its own words in order and has output all 15 of them when it halts.
C5_OutputsItself ==
    FreshRunOf(Narrow(ProgSelfCopy)) =>
        /\ fatal = NoErr
        /\ IsPrefix(output_buffer, Narrow(ProgSelfCopy))
        /\ stop = "Halt" => output_buffer = Narrow(ProgSelfCopy)

\* C5 amended: the first run of that program returns WroteOutput with the
\* program's first word, 109, as the only output; the second run stores 99
\* in cell 204, reaches the word 100 at pointer 10 and panics on its
\* opcode 0.  No run returns Halt and nothing but 109 is ever output.
C5_OutputsFirstWordThenPanics ==
    FreshRunOf(Narrow(ProgSelfCopy)) =>
        /\ stop # "Halt"
        /\ IsPrefix(output_buffer, Narrow(<<109>>))
        /\ pc = "returned" => (stops = <<"WroteOutput">> /\ output_buffer = Narrow(<<109>>))
        /\ calls >= 2 => pc \in {"run", "panic"}
        /\ fatal \in {NoErr, ErrOpcode}
        /\ pc = "panic" =>
              /\ fatal = ErrOpcode
              /\ calls = 2
              /\ ip = W(10)
              /\ MemGet(memory, 10) = W(100)
              /\ MemGet(memory, 204) = W(99)
              /\ output_buffer = Narrow(<<109>>)

\* C5 witness: the second run of the program has panicked on opcode 0.
C5_Witness ==
    /\ FreshRunOf(Narrow(ProgSelfCopy))
    /\ pc = "panic"
    /\ fatal = ErrOpcode
    /\ output_buffer = Narrow(<<109>>)

\* C6: the program 3,0,4,0,99 started with the input buffer [v] and given
\* no further input returns WroteOutput from its first run and Halt from
\* its second, and from the first return on the output buffer is [v], the
\* input buffer is empty and cell 0 holds v.
C6_Echo ==
    \A v \in InputVals :
        (program = Narrow(ProgEcho) /\ calls >= 1 /\ first_in = <<v>> /\ pushed = <<v>>) =>
            /\ fatal = NoErr
            /\ Len(stops) >= 1 =>
                  /\ stops[1] = "WroteOutput"
                  /\ output_buffer = <<v>>
                  /\ input_buffer = << >>
                  /\ MemGet(memory, 0) = v
            /\ Len(stops) >= 2 => stops[2] = "Halt"

\* C6 witness: input [7] has produced output [7] and the program has halted.
C6_Witness ==
    /\ program = Narrow(ProgEcho)
    /\ first_in = Narrow(<<7>>)
    /\ pushed = Narrow(<<7>>)
    /\ stops = <<"WroteOutput", "Halt">>
    /\ output_buffer = Narrow(<<7>>)

\* The parameters a Relative access is probed with at every relative base.
ProbeParams == {-7, -1, 0, 1, 3, 5, 9, MemCap - 1, MemCap}

\* C8: an AdjustRelativeBase instruction that does not panic adds its
\* operand to the relative base, advances the pointer by 2, returns Running
\* and leaves memory and both buffers alone; whatever the relative base then
\* is, negative included, a Relative read or write with parameter p reaches
\* cell p + relative_base when 0 <= p + relative_base < capacity and panics
\* when p + relative_base < 0.
C8_AdjustStep ==
    (AtOp("AdjustRelativeBase") /\ fatal' = NoErr) =>
        /\ relative_base' = WAdd(relative_base, OperandOfParam(0))
        /\ ip' = UAdd(ip, 2)
        /\ pc' = "run"
        /\ UNCHANGED <<memory, input_buffer, output_buffer>>

C8_RelativeAccess ==
    \A p \in ProbeParams :
        \A address \in {WAdd(W(p), relative_base)},
           rd \in {ParamMode_read("Relative", W(p), relative_base, memory)},
           wr \in {ParamMode_write("Relative", W(p), relative_base, W(77), memory)} :
            /\ IsCell(address) =>
                  /\ rd.err = NoErr
                  /\ rd.val = MemGet(memory, Lo(address))
                  /\ wr.err = NoErr
                  /\ OnlyCellChanged(memory, wr.memory, Lo(address), W(77))
            /\ WLt(address, Zero) =>
                  /\ rd.err # NoErr
                  /\ wr.err # NoErr
                  /\ wr.memory = memory

C8_AdjustRelativeBase == [][C8_AdjustStep /\ C8_RelativeAccess']_vars

\* C8 witness: with the relative base lowered to -5, the read 204,9 has
\* output cell 4, the add 22201,5,6,7 has stored cell 0 + cell 1 in cell 2,
\* and 204,1 has panicked on the address -4.
C8_Witness ==
    /\ program = Narrow(<<109, -5, 204, 9, 22201, 5, 6, 7, 204, 1, 99>>)
    /\ relative_base = W(-5)
    /\ output_buffer = Narrow(<<22201>>)
    /\ MemGet(memory, 2) = W(104)
    /\ ip = W(8)
    /\ fatal = ErrAssert

\* The values appended to the input buffer by a step.
InputAppended == SubSeq(input_buffer', Len(input_buffer) + 1, Len(input_buffer'))

\* Where line k of the script starts in what the driver writes.
RECURSIVE LineOffset(_)
LineOffset(k) == IF k = 1 THEN 0 ELSE LineOffset(k - 1) + Len(script[k - 1]) + 1

\* How many elements of s equal x.
Count(s, x) == Cardinality({i \in 1..Len(s) : s[i] = x})

\* The byte codes of NOT C T, AND D T, NOT A J, OR T J and WALK, each
\* followed by a newline.
SpringScriptCodes ==
    <<78, 79, 84, 32, 67, 32, 84, 10,  65, 78, 68, 32, 68, 32, 84, 10,
      78, 79, 84, 32, 65, 32, 74, 10,  79, 82, 32, 84, 32, 74, 10,
      87, 65, 76, 75, 10>>

\* C9: the input buffer is empty throughout the awaiting-input phase; the
\* only step of the driver that writes to it is the feeding step, taken
\* after run has returned WaitForInput and before run is invoked again,
\* which appends len(script) + 1 entries each ended by the code 10: the
\* lines of the script in order, character by character as byte codes, then
\* W A L K, sum(len(line) + 1) + 5 values in all.
C9_FeedStep ==
    /\ phase = "awaiting_input" => input_buffer = << >>
    /\ input_buffer' # input_buffer =>
          \/ pc = "run" /\ input_buffer' = Tail(input_buffer)
          \/ phase = "feeding" /\ phase' = "run_to_completion"
    /\ (phase = "feeding" /\ phase' = "run_to_completion") =>
          LET n == Len(script)
              a == InputAppended
          IN  /\ stop = "WaitForInput"
              /\ pc = "host" /\ pc' = "host"
              /\ calls' = calls
              /\ IsPrefix(input_buffer, input_buffer')
              /\ Len(a) = LineOffset(n + 1) + 5
              /\ Count(a, W(10)) = n + 1
              /\ \A k \in 1..n :
                    /\ \A j \in 1..Len(script[k]) :
                          a[LineOffset(k) + j] = W(ByteOf(script[k][j]))
                    /\ a[LineOffset(k) + Len(script[k]) + 1] = W(10)
              /\ SubSeq(a, LineOffset(n + 1) + 1, Len(a))
                    = Narrow(<<87, 65, 76, 75, 10>>)
              /\ script = SPRING_SCRIPT => input_buffer' = Narrow(SpringScriptCodes)

C9_FeedingWritesScript == [][C9_FeedStep]_vars

\* C9 witness: SPRING_SCRIPT has just been fed after a WaitForInput and run
\* has not been invoked again.
C9_Witness ==
    /\ script = SPRING_SCRIPT
    /\ phase = "run_to_completion"
    /\ pc = "host"
    /\ stop = "WaitForInput"
    /\ stops = <<"WroteOutput", "WroteOutput", "WaitForInput">>
    /\ input_buffer = Narrow(SpringScriptCodes)

\* C10: the phases follow one another as awaiting-input, feeding,
\* run-to-completion (then the report), each left only forward or by an
\* abort, after which nothing more happens; Halt returned while awaiting
\* input aborts with nothing fed or printed; WaitForInput returned while
\* running to completion aborts with nothing reported; WroteOutput returned
\* in either phase leaves the machine and the buffers as they are and the
\* loop of that phase goes on.
C10_PhaseStep ==
    /\ phase # "abort"
    /\ pc # "panic"
    /\ phase' # phase =>
          <<phase, phase'>> \in
              { <<"awaiting_input", "feeding">>, <<"feeding", "run_to_completion">>,
                <<"run_to_completion", "report">>, <<"report", "done">>,
                <<"awaiting_input", "abort">>, <<"feeding", "abort">>,
                <<"run_to_completion", "abort">>, <<"report", "abort">> }
    /\ (phase = "awaiting_input" /\ pc = "returned" /\ stop = "Halt") =>
          /\ phase' = "abort"
          /\ pc' = "panic"
          /\ fatal' = ErrHalt
          /\ input_buffer = << >>
          /\ UNCHANGED <<machine_vars, log, damage>>
    /\ (phase = "run_to_completion" /\ pc = "returned" /\ stop = "WaitForInput") =>
          /\ phase' = "abort"
          /\ pc' = "panic"
          /\ fatal' = ErrWait
          /\ damage' = << >>
          /\ UNCHANGED <<machine_vars, log>>
    /\ (phase \in {"awaiting_input", "run_to_completion"} /\ pc = "returned"
            /\ stop = "WroteOutput") =>
          /\ phase' = phase
          /\ pc' = "host"
          /\ fatal' = NoErr
          /\ UNCHANGED <<machine_vars, log, damage>>
    /\ (phase = "awaiting_input" /\ pc = "returned" /\ stop = "WaitForInput") =>
          phase' = "feeding"
    /\ (phase = "run_to_completion" /\ pc = "returned" /\ stop = "Halt") =>
          phase' = "report"

C10_DriverProtocol == [][C10_PhaseStep]_vars

\* C10 witness: after output while awaiting input, the feeding and output
\* while running to completion, the program asked for more input than was
\* fed and the session aborted with nothing reported.
C10_Witness ==
    /\ phase = "abort"
    /\ fatal = ErrWait
    /\ script = << >>
    /\ program = Narrow(<<104, 72, 3, 9, 3, 9, 3, 9, 104, 74, 3, 9, 3, 9, 3, 9, 3, 9,
                   3, 9, 3, 9, 3, 9, 3, 9, 3, 9, 3, 9, 104, 5, 99>>)
    /\ stops = <<"WroteOutput", "WaitForInput", "WroteOutput", "WaitForInput">>
    /\ damage = << >>

\* The other protocol violation: the program halted while the driver was
\* awaiting input, and nothing was fed.
C10_WitnessHalt ==
    /\ phase = "abort"
    /\ fatal = ErrHalt
    /\ stops = <<"WroteOutput", "Halt">>
    /\ input_buffer = << >>

--------------------------------------------------------------------------
\* One IoBuffer alone, used by a host through its methods in any order.
\* harness.values is the queue; hist is every value written so far and
\* removed the number of values the methods have handed back, both kept by
\* the host.

\* At most MaxPushes values are written to the channel.
MaxPushes == 3

\* A letter, the newline, the last ASCII code, the first code above ASCII,
\* two negative values: -1 is the byte 255, -191 the byte 65, and two
\* values beyond 64 bits: 65 - 2^64 is the byte 65, 2^64 + 10 is above 127.
ChannelVals ==
    {W(65), W(10), W(127), W(128), W(-1), W(-191), Wide(-1, 65), Wide(1, 10)}

InitChannel ==
    /\ harness = [op |-> "new", values |-> << >>, hist |-> << >>, removed |-> 0,
                  some |-> FALSE, val |-> Zero, ret |-> << >>, err |-> NoErr]
    /\ phase = "channel"
    /\ NoMachine

ChannelLive == phase = "channel" /\ harness.err = NoErr

\* buffer.write(v)
ChannelWrite(v) ==
    /\ ChannelLive
    /\ Len(harness.hist) < MaxPushes
    /\ harness' = [harness EXCEPT
           !.op = "write",
           !.values = IoBuffer_write(harness.values, v),
           !.hist = Append(harness.hist, v),
           !.some = FALSE, !.val = Zero, !.ret = << >>]
    /\ UNCHANGED <<machine_vars, control_vars, history_vars, driver_vars, resolver>>

\* buffer.read()
ChannelRead ==
    /\ ChannelLive
    /\ LET r == IoBuffer_read(harness.values) IN
       harness' = [harness EXCEPT
           !.op = "read",
           !.values = r.values,
           !.removed = harness.removed + (IF r.some THEN 1 ELSE 0),
           !.some = r.some, !.val = r.val, !.ret = << >>]
    /\ UNCHANGED <<machine_vars, control_vars, history_vars, driver_vars, resolver>>

\* buffer.drain().collect()
ChannelDrain ==
    /\ ChannelLive
    /\ LET r == IoBuffer_drain(harness.values) IN
       harness' = [harness EXCEPT
           !.op = "drain",
           !.values = r.values,
           !.removed = harness.removed + Len(r.ret),
           !.some = FALSE, !.val = Zero, !.ret = r.ret]
    /\ UNCHANGED <<machine_vars, control_vars, history_vars, driver_vars, resolver>>

\* buffer.drain_ascii_string()
ChannelDrainAscii ==
    /\ ChannelLive
    /\ LET r == IoBuffer_drain_ascii_string(harness.values) IN
       harness' = [harness EXCEPT
           !.op = "drain_ascii",
           !.values = r.values,
           !.removed = harness.removed + Len(r.text),
           !.some = FALSE, !.val = Zero, !.ret = r.text, !.err = r.err]
    /\ UNCHANGED <<machine_vars, control_vars, history_vars, driver_vars, resolver>>

NextChannel ==
    \/ \E v \in ChannelVals : ChannelWrite(v)
    \/ ChannelRead
    \/ ChannelDrain
    \/ ChannelDrainAscii

SpecChannel == InitChannel /\ [][NextChannel]_vars

\* The opcode a two-digit code selects, and the mode a digit selects.
OpcodeCodes == {1, 2, 3, 4, 5, 6, 7, 8, 9, 99}
OpcodeNamed(code) ==
    CASE code = 1 -> "Add" [] code = 2 -> "Multiply" [] code = 3 -> "Input"
      [] code = 4 -> "Output" [] code = 5 -> "JumpIfTrue"
      [] code = 6 -> "JumpIfFalse" [] code = 7 -> "LessThan"
      [] code = 8 -> "Equals" [] code = 9 -> "AdjustRelativeBase"
      [] code = 99 -> "Halt"
ModeNamed(digit) ==
    CASE digit = 0 -> "Positional" [] digit = 1 -> "Immediate"
      [] digit = 2 -> "Relative"

\* What C11 says of the decoded word w and parameter index n, with mod the
\* least non-negative remainder and / the floored quotient.
DecodedByMod(w, n) ==
    LET code == w % 100
        digit == ((w \div 100) \div (10 ^ n)) % 10
    IN  /\ harness.op = "decode_panic" <=> code \notin OpcodeCodes
        /\ harness.op = "decode_panic" => harness.err = ErrOpcode
        /\ harness.op # "decode_panic" => harness.opcode = OpcodeNamed(code)
        /\ harness.op = "mode" => (digit \in 0..2 /\ harness.mode = ModeNamed(digit))
        /\ harness.op = "mode_panic" => (digit \notin 0..2 /\ harness.err = ErrMode)

\* C11 as stated: every word w, negative ones included, decodes to the
\* opcode w mod 100 selects, with a panic exactly when w mod 100 is none of
\* the ten codes, and parameter n gets the mode of the digit
\* ((w / 100) / 10^n) mod 10, with a panic for a digit above 2.
C11_DecodeEveryWord ==
    harness.op # "none" => DecodedByMod(harness.word, harness.n)

\* C11 amended: that holds of every word w >= 0; every word w < 0 is a panic
\* on the opcode, because the remainder the decoder takes has the sign of w
\* and is never one of the ten codes.
C11_DecodeNonNegative ==
    harness.op # "none" =>
        IF harness.word >= 0
        THEN DecodedByMod(harness.word, harness.n)
        ELSE harness.op = "decode_panic" /\ harness.err = ErrOpcode

\* C11 witness: 21002 has decoded to Multiply and its parameter 1 to
\* Immediate mode.
C11_Witness ==
    /\ harness.op = "mode"
    /\ harness.word = 21002
    /\ harness.n = 1
    /\ harness.opcode = "Multiply"
    /\ harness.mode = "Immediate"

\* The length of the longest leading run of values that are ASCII codes,
\* 0..127, the widest reading of the printable ASCII range.
RECURSIVE AsciiCodeRunLen(_)
AsciiCodeRunLen(values) ==
    IF values # << >> /\ Hi(Head(values)) = 0 /\ Lo(Head(values)) \in 0..127
    THEN 1 + AsciiCodeRunLen(Tail(values))
    ELSE 0

C12_DrainStep ==
    harness'.op = "drain_ascii" =>
        LET n == AsciiCodeRunLen(harness.values) IN
        /\ harness'.err = NoErr
        /\ harness'.ret = [i \in 1..n |-> Lo(harness.values[i])]
        /\ harness'.values = SubSeq(harness.values, n + 1, Len(harness.values))

\* C12 as stated: drain_ascii_string removes and returns exactly the longest
\* leading run of values in the ASCII range, in queue order, leaves the
\* value it stopped at and everything behind it in place, and never fails.
C12_TextDrainNeverFails == [][C12_DrainStep]_vars

\* The same step for a queue that holds no negative value.
C12_DrainStepNonNegative ==
    (\A i \in 1..Len(harness.values) : WNonNeg(harness.values[i])) => C12_DrainStep

C12_TextDrainOfNonNegative == [][C12_DrainStepNonNegative]_vars

C13_ChannelStep ==
    LET hist == harness.hist
        removed == harness.removed
    IN  /\ harness'.op = "write" =>
              /\ harness'.values = Append(harness.values, harness'.hist[Len(harness'.hist)])
        /\ harness'.op = "read" =>
              IF removed < Len(hist)
              THEN /\ harness'.some
                   /\ harness'.val = hist[removed + 1]
                   /\ harness'.values = SubSeq(hist, removed + 2, Len(hist))
              ELSE /\ ~harness'.some
                   /\ harness'.values = << >>
                   /\ harness'.err = NoErr
        /\ harness'.op = "drain" =>
              /\ harness'.ret = SubSeq(hist, removed + 1, Len(hist))
              /\ harness'.values = << >>

\* C13: an IoBuffer is a FIFO queue.  After any sequence of write, read and
\* drain, read returns the oldest value written and not yet handed back;
\* read of an empty queue returns None and leaves it empty; drain returns
\* every queued value in the order written and leaves the queue empty.
C13_Fifo == [][C13_ChannelStep]_vars

\* C13 witness: of 65, 10, 128 written in that order, the second read has
\* returned 10 and 128 is what is left.
C13_Witness ==
    /\ phase = "channel"
    /\ harness.op = "read"
    /\ harness.hist = Narrow(<<65, 10, 128>>)
    /\ harness.removed = 2
    /\ harness.some
    /\ harness.val = W(10)
    /\ harness.values = Narrow(<<128>>)

\* The read of parameter n as an operand, as the engine does it.
OperandRead(n) ==
    LET param == Index(memory, UAdd(ip, 1 + n)) IN
    IF param.err # NoErr THEN param
    ELSE ReadParam(Instruction_decode(CurWord).param_modes, n, param.val,
                   relative_base, memory)

JumpTaken(op) ==
    IF op = "JumpIfTrue" THEN OperandRead(0).val # Zero
    ELSE OperandRead(0).val = Zero

\* What C14 says of one step of the jump op whose reads do not panic.
JumpStepAsStated(op) ==
    (AtOp(op) /\ OperandRead(0).err = NoErr /\ (JumpTaken(op) => OperandRead(1).err = NoErr)) =>
        IF JumpTaken(op)
        THEN IF WLt(OperandRead(1).val, Zero)
             THEN /\ pc' = "panic"
                  /\ fatal' # NoErr
             ELSE /\ ip' = OperandRead(1).val
                  /\ pc' = "run"
                  /\ UNCHANGED <<memory, relative_base, input_buffer, output_buffer>>
        ELSE /\ ip' = UAdd(ip, 3)
             /\ pc' = "run"
             /\ UNCHANGED <<memory, relative_base, input_buffer, output_buffer>>

\* C14 as stated: a jump whose condition holds sets the pointer to exactly
\* the target read as parameter 1 and panics on a negative target; a jump
\* whose condition does not hold adds 3 to the pointer; the status is
\* Running and memory, relative base and both buffers are unchanged.
C14_JumpToExactTarget ==
    [][JumpStepAsStated("JumpIfTrue") /\ JumpStepAsStated("JumpIfFalse")]_vars

\* The same for the jumps whose target, when they are taken, is a pointer
\* value: 0 <= target < 2^64.
JumpStepInRange(op) ==
    (JumpTaken(op) /\ OperandRead(1).err = NoErr
        => (WNonNeg(OperandRead(1).val) /\ WLt(OperandRead(1).val, Wide(1, 0))))
    => JumpStepAsStated(op)

C14_JumpToTargetInRange ==
    [][JumpStepInRange("JumpIfTrue") /\ JumpStepInRange("JumpIfFalse")]_vars

\* C15 as stated: every call of run ends, by returning to the host or by a
\* panic; the loop never executes instructions forever.
C15_RunAlwaysEnds == (pc = "run") ~> (pc \in {"returned", "panic"})

\* The program that jumps from 0 to 3 and from 3 back to 0.
ProgSpin == <<1105, 1, 3, 1105, 1, 0>>

\* The instruction about to execute is one at which the loop returns: Halt,
\* an Output whose operand can be read, or an Input with nothing queued.
AtYield ==
    \/ AtOp("Halt")
    \/ AtOp("Output") /\ OperandRead(0).err = NoErr
    \/ AtOp("Input") /\ input_buffer = << >>

C15_RunStep ==
    pc = "run" =>
        /\ AtYield =>
              /\ pc' = "returned"
              /\ stop' = (IF AtOp("Halt") THEN "Halt"
                          ELSE IF AtOp("Output") THEN "WroteOutput"
                          ELSE "WaitForInput")
              /\ stops' = Append(stops, stop')
        /\ ~AtYield =>
              /\ pc' \in {"run", "panic"}
              /\ pc' = "panic" <=> fatal' # NoErr
              /\ stops' = stops
        /\ program = Narrow(ProgSpin) => pc' = "run" /\ ip' = W(3 - Lo(ip))

\* C15 amended: the run loop returns at the first instruction that yields,
\* with exactly that one event, and until then it goes on executing unless
\* an instruction panics; at an instruction that yields it does return.
\* The loop need not end: running 1105,1,3,1105,1,0 it never returns.
C15_RunReturnsOnlyAtYield ==
    /\ [][C15_RunStep]_vars
    /\ (pc = "run" /\ AtYield) ~> (pc = "returned")

\* C15 witness: the run loop is inside the cycle of 1105,1,3,1105,1,0, at
\* pointer 3, and has returned nothing.
C15_Witness ==
    /\ program = Narrow(ProgSpin)
    /\ pc = "run"
    /\ ip = W(3)
    /\ stops = << >>

\* The instruction about to execute reaches a write through Immediate mode:
\* one of the four three-parameter instructions with mode digit 1 for
\* parameter 2 whose two operands can be read, or an Input with mode digit 1
\* for parameter 0 and a value queued.
AtImmediateWrite ==
    \/ /\ \E op \in {"Add", "Multiply", "LessThan", "Equals"} : AtOp(op)
       /\ ModeDigit(2) = 1
       /\ OperandRead(0).err = NoErr
       /\ OperandRead(1).err = NoErr
       /\ Lo(ip) + 3 < MemCap
    \/ /\ AtOp("Input")
       /\ ModeDigit(0) = 1
       /\ input_buffer # << >>
       /\ Lo(ip) + 1 < MemCap

C16_ImmediateWriteStep ==
    AtImmediateWrite =>
        /\ pc' = "panic"
        /\ fatal' = ErrImmWrite
        /\ memory' = memory
        /\ ip' = ip

\* C16: an instruction that reaches a write through Immediate mode panics
\* with "attempted to write in immediate mode"; no cell of memory is
\* modified and the pointer is not advanced.
C16_ImmediateWriteIsFatal == [][C16_ImmediateWriteStep]_vars

\* C16 witness: 103,1 has taken the 7 the host pushed and panicked on the
\* write, with the pointer still at 2 and memory as loaded.
C16_Witness ==
    /\ program = Narrow(<<109, 0, 103, 1, 4, 0, 99>>)
    /\ pushed = Narrow(<<7>>)
    /\ input_buffer = << >>
    /\ pc = "panic"
    /\ fatal = ErrImmWrite
    /\ ip = W(2)
    /\ memory = NewMemory(program)

\* The output of a session has the form C17 speaks of: values that are
\* ASCII codes, then at most one value that is not.
TextOf(values) == [i \in 1..AsciiCodeRunLen(values) |-> Lo(values[i])]
TextThenAtMostOneNumber(values) == Len(values) - AsciiCodeRunLen(values) <= 1
NumberOf(values) == SubSeq(values, AsciiCodeRunLen(values) + 1, Len(values))

\* The session has got Halt from run_until_halt and Solution::run is over.
SessionOverAfterHalt ==
    /\ phase \in {"done", "abort"}
    /\ stops # << >>
    /\ stops[Len(stops)] = "Halt"
    /\ fatal # ErrHalt

\* The log is the text in the order produced, with the echo of the script
\* after the part drained before feeding, then the line of the number, and
\* the number is the result reported.
LoggedAndReported(values) ==
    /\ phase = "done"
    /\ \E k \in 0..Len(TextOf(values)) :
          log = SubSeq(TextOf(values), 1, k) \o EchoScript(script, 1)
                  \o SubSeq(TextOf(values), k + 1, Len(TextOf(values)))
                  \o (IF NumberOf(values) = << >> THEN << >>
                      ELSE PrintlnI128(Lo(NumberOf(values)[1])))
    /\ damage = NumberOf(values)

\* C17 as stated: in a session that reaches Halt whose output is text followed
\* by at most one number, whatever part of it came before the feeding, the
\* log shows all the text in the order produced and the number is reported
\* as the result.
C17_TextLoggedNumberReported ==
    (SessionOverAfterHalt /\ TextThenAtMostOneNumber(produced))
        => LoggedAndReported(produced)

\* The same for a session whose number, if there is one, is above 127.
C17_TextLoggedNumberAboveAscii ==
    (/\ SessionOverAfterHalt
     /\ TextThenAtMostOneNumber(produced)
     /\ \A i \in 1..Len(produced) : WNonNeg(produced[i]))
        => LoggedAndReported(produced)

\* The number of parameters whose mode the instruction about to execute
\* examines on the path it takes: none for Halt and for an Input with
\* nothing queued, the condition alone for a jump not taken.
UsedParams ==
    LET op == Instruction_decode(CurWord).opcode IN
    CASE op = "Halt" -> 0
      [] op = "Input" -> IF input_buffer = << >> THEN 0 ELSE 1
      [] op \in {"Output", "AdjustRelativeBase"} -> 1
      [] op \in {"JumpIfTrue", "JumpIfFalse"} ->
            IF OperandRead(0).err = NoErr /\ JumpTaken(op) THEN 2 ELSE 1
      [] OTHER -> 3

\* The machine with the word at the pointer replaced by w.
WithWord(w) == [Machine EXCEPT !.memory = MemSet(memory, Lo(ip), W(w))]

\* The word with every mode digit from position u up set to 0, and with
\* digit d put at position k.
PlainWord(u) == CurWord % (100 * (10 ^ u))
WithDigit(w, k, d) ==
    w + (d - (((w \div 100) \div (10 ^ k)) % 10)) * (100 * (10 ^ k))

\* Two step results that differ at most in the cell that holds the word.
SameStep(a, b) ==
    /\ a.err = b.err
    /\ a.status = b.status
    /\ a.ip = b.ip
    /\ a.relative_base = b.relative_base
    /\ a.input_buffer = b.input_buffer
    /\ a.output_buffer = b.output_buffer
    /\ \A i \in (DOMAIN a.memory \cup DOMAIN b.memory) \ {Lo(ip)} :
          MemGet(a.memory, i) = MemGet(b.memory, i)

\* No parameter of the instruction designates the cell of the word itself.
WordIsNoOperand == \A n \in 0..2 : CellOfParam(n) # Lo(ip)

\* C18: the mode digit of a parameter is examined only when the path taken
\* uses the parameter.  Whatever digits stand at the unused positions, the
\* step is that of the word with those digits 0, with no unknown-mode
\* panic of their making; a digit above 2 at a used position is a panic.
C18_ModesExaminedLazily ==
    (/\ pc = "run"
     /\ Hi(ip) = 0 /\ Lo(ip) < MemCap
     /\ Hi(CurCell) = 0
     /\ CurWord >= 0
     /\ Instruction_decode(CurWord).err = NoErr)
    => /\ WordIsNoOperand =>
             /\ SameStep(StepOf(Machine), StepOf(WithWord(PlainWord(UsedParams))))
             /\ \A k \in {UsedParams, UsedParams + 1, 5}, d \in {1, 3, 9} :
                   SameStep(StepOf(WithWord(PlainWord(UsedParams))),
                            StepOf(WithWord(WithDigit(PlainWord(UsedParams), k, d))))
       /\ \A k \in 0..(UsedParams - 1), d \in {3, 9} :
             StepOf(WithWord(WithDigit(CurWord, k, d))).err # NoErr

\* C18 witness: 3105,0,0,99 has run to Halt: the jump was not taken and the
\* digit 3 of its target was not examined.
C18_Witness ==
    /\ program = Narrow(<<3105, 0, 0, 99>>)
    /\ pc = "returned"
    /\ stop = "Halt"
    /\ ip = W(3)
    /\ fatal = NoErr

\* run has returned Halt at least once.
Halted == stops # << >> /\ stops[Len(stops)] = "Halt"

C19_HaltStep ==
    /\ AtOp("Halt") =>
          /\ pc' = "returned"
          /\ stop' = "Halt"
          /\ stops' = Append(stops, "Halt")
          /\ fatal' = NoErr
          /\ UNCHANGED <<memory, ip, relative_base, input_buffer, output_buffer>>
    /\ Halted =>
          /\ pc = "run" => AtOp("Halt")
          /\ Halted'
          /\ fatal' = NoErr
          /\ UNCHANGED <<memory, ip, relative_base, output_buffer>>
          /\ \/ input_buffer' = input_buffer
             \/ \E v \in InputVals : input_buffer' = Append(input_buffer, v) /\ pc' # "run"

\* C19: Halt is absorbing.  A Halt step returns Halt and leaves pointer,
\* relative base, memory and both buffers as they were; after run has
\* returned Halt every later call returns Halt again, whatever the host has
\* pushed, with the machine unchanged, no input taken and no output written.
C19_HaltIsAbsorbing == [][C19_HaltStep]_vars

\* C19 witness: run has returned Halt three times, and the two values the
\* host pushed after the first Halt are both still queued.
C19_Witness ==
    /\ stops = <<"Halt", "Halt", "Halt">>
    /\ pc = "returned"
    /\ pushed = Narrow(<<7, 0>>)
    /\ input_buffer = Narrow(<<7, 0>>)
    /\ in_at_call = Narrow(<<7, 0>>)
    /\ first_in = << >>

C20_EngineStep ==
    pc = "run" =>
        /\ fatal' = NoErr =>
              IF AtOp("Input") /\ input_buffer # << >>
              THEN input_buffer' = Tail(input_buffer)
              ELSE input_buffer' = input_buffer
        /\ IF AtOp("Output") /\ OperandRead(0).err = NoErr
           THEN output_buffer' = Append(output_buffer, OperandRead(0).val)
           ELSE output_buffer' = output_buffer
        /\ output_buffer' = produced'
        /\ relative_base' # relative_base => AtOp("AdjustRelativeBase")

\* C20: over any calls of run and pushes of the host, the engine touches
\* the buffers only in Input and Output steps.  A step that does not panic
\* changes the input buffer only when it is an Input with a value queued,
\* which takes exactly the front value; the engine never adds to the input
\* buffer.  The engine never removes from the output buffer: undrained, it
\* is the sequence of the operands of the Output steps so far.  The relative
\* base changes only in AdjustRelativeBase steps.
C20_ChannelsOnlyByInputOutput == [][C20_EngineStep]_vars

\* C20 witness: 3,5,3,6,104,0,0 has taken 0 and then 7 from the input
\* buffer, front first, written its one output and panicked on the opcode 0.
C20_Witness ==
    /\ program = Narrow(<<3, 5, 3, 6, 104, 0, 0>>)
    /\ pushed = Narrow(<<0, 7>>)
    /\ input_buffer = << >>
    /\ MemGet(memory, 5) = W(0)
    /\ MemGet(memory, 6) = W(7)
    /\ output_buffer = Narrow(<<0>>)
    /\ relative_base = W(0)

====
